---------------------------- MODULE Spec2Model ----------------------------
(***************************************************************************)
(* State-machine model of src/areaMap.py, the MunicipalHub analytics page. *)
(* One behaviour is one page load: the script runs top to bottom, fetches  *)
(* the records with one HTTP GET, builds the data frame, filters it,       *)
(* derives tooltip and colour, and emits the page elements, stopping early *)
(* at st.stop() or at an uncaught exception.                               *)
(*                                                                         *)
(* Scope of the inputs: a response is a network failure, or a status code  *)
(* with a body that is either not JSON or a JSON array of objects.  Every  *)
(* object carries the six core fields (a value may be JSON null); the      *)
(* geocode key may be absent, null, an empty object or an object with lat  *)
(* and/or lng.  Real numbers are kept in tenths (-26.2 is Float(-262)).    *)
(***************************************************************************)
EXTENDS Integers, Sequences, FiniteSets, TLC

VARIABLES pc,        \* position of the script
          gets,      \* number of HTTP GET requests issued so far
          response,  \* what requests.get returned (or that it raised)
          data,      \* the parsed JSON body
          df,        \* the data frame: [columns, rows]
          page       \* the elements emitted on the page, in order

vars == <<pc, gets, response, data, df, page>>

(***************************************************************************)
(* Bounds of the model.                                                    *)
(***************************************************************************)
MaxRecords == 2

(***************************************************************************)
(* Python / JSON / pandas values.  Every cell is a tagged record.          *)
(***************************************************************************)
JNull == [t |-> "null"]                    \* JSON null, Python None
NaN == [t |-> "nan"]                       \* pandas' missing-value float
JNum(n) == [t |-> "num", n |-> n]          \* an integer
Float(n) == [t |-> "float", n |-> n]       \* a real number, in tenths
JStr(s) == [t |-> "str", s |-> s]
JDict(d) == [t |-> "dict", d |-> d]        \* d: a function from keys to cells
EmptyDict == JDict([k \in {} |-> JNull])

\* Python truthiness: None and empty containers are falsy, NaN is a non-zero float.
Truthy(x) ==
    CASE x.t = "null" -> FALSE
      [] x.t = "nan" -> TRUE
      [] x.t = "num" -> x.n # 0
      [] x.t = "float" -> x.n # 0
      [] x.t = "str" -> x.s # ""
      [] x.t = "dict" -> DOMAIN x.d # {}

\* pandas isna(): None and NaN are both missing.
IsNA(x) == x.t \in {"null", "nan"}

\* `key in x` raises TypeError unless x is a container.
InRaises(x) == x.t \notin {"dict", "str"}

\* `key in x` for a dict (a str never holds a whole key of the model).
Contains(x, key) == x.t = "dict" /\ key \in DOMAIN x.d

\* str() as the f-string applies it.
DigitsOf(n) == IF n < 0 THEN "-" \o ToString(-n) ELSE ToString(n)

Format(x) ==
    CASE x.t = "null" -> "None"
      [] x.t = "nan" -> "nan"
      [] x.t = "num" -> DigitsOf(x.n)
      [] x.t = "float" ->
           IF x.n < 0 THEN "-" \o ToString((-x.n) \div 10) \o "." \o ToString((-x.n) % 10)
           ELSE ToString(x.n \div 10) \o "." \o ToString(x.n % 10)
      [] x.t = "str" -> x.s
      [] x.t = "dict" -> "{...}"

(***************************************************************************)
(* pandas column inference: a column of numbers with a missing value, or   *)
(* with a real number, becomes float64 (integers widen, None becomes NaN); *)
(* any other column keeps its objects.                                     *)
(***************************************************************************)
Numeric(x) == x.t \in {"num", "float"}

ToFloat(x) == IF x.t = "num" THEN Float(10 * x.n) ELSE x

InferColumn(col) ==
    IF /\ \A i \in DOMAIN col : Numeric(col[i]) \/ IsNA(col[i])
       /\ \E i \in DOMAIN col : Numeric(col[i])
       /\ \E i \in DOMAIN col : IsNA(col[i]) \/ col[i].t = "float"
    THEN [i \in DOMAIN col |-> IF IsNA(col[i]) THEN NaN ELSE ToFloat(col[i])]
    ELSE col

\* pd.DataFrame(list of dicts): the columns are the union of the keys, a key a
\* record lacks is filled with NaN.
Columns(records) == UNION {DOMAIN records[i] : i \in DOMAIN records}

RawColumn(records, c) ==
    [i \in DOMAIN records |-> IF c \in DOMAIN records[i] THEN records[i][c] ELSE NaN]

DataFrame(records) ==
    [columns |-> Columns(records),
     rows |-> [i \in DOMAIN records |->
                 [c \in Columns(records) |-> InferColumn(RawColumn(records, c))[i]]]]

\* DataFrame.empty: no rows or no columns.
Empty(frame) == Len(frame.rows) = 0 \/ frame.columns = {}

NoFrame == [columns |-> {}, rows |-> <<>>]

(***************************************************************************)
(* The responses the endpoint may give.                                    *)
(***************************************************************************)
Profiles ==
    { <<JNum(1), JStr("Gauteng"), JStr("urgent")>>,
      <<JNum(2), JStr("Gauteng"), JStr("high")>>,
      <<JNum(1), JStr("Limpopo"), JStr("medium")>>,
      <<JNum(2), JNull, JStr("low")>>,
      <<JNum(1), JStr("Limpopo"), JNull>>,
      <<JNum(2), JStr("Gauteng"), JStr("critical")>>,
      <<JNull, JStr("Gauteng"), JStr("urgent")>> }

Core(p) ==
    [query_id |-> p[1], query_address |-> JStr("12 Main Rd"), region |-> p[2],
     query_status |-> JStr("open"), priority_status |-> p[3],
     query_description |-> JStr("pothole")]

GeocodeCells ==
    { JNull, EmptyDict,
      JDict([lat |-> Float(-262), lng |-> Float(280)]),
      JDict([lat |-> Float(-262)]),
      JDict([lat |-> JNull, lng |-> Float(280)]) }

Records ==
    {Core(p) : p \in Profiles}
        \cup {("geocode" :> g) @@ Core(p) : p \in Profiles, g \in GeocodeCells}

Bodies == UNION {[1..n -> Records] : n \in 0..MaxRecords}

StatusCodes == {200, 300, 404, 500}

\* response.raise_for_status(): raises HTTPError for 4xx and 5xx only.
HTTPErrorMsg(status) ==
    IF 400 <= status /\ status < 500 THEN ToString(status) \o " Client Error"
    ELSE IF 500 <= status /\ status < 600 THEN ToString(status) \o " Server Error"
    ELSE ""

\* kind: "exception" when requests.get itself raised; json: whether the body is
\* valid JSON.
NoResponse == [kind |-> "none", status |-> 0, json |-> FALSE]

Init ==
    /\ pc = "fetch"
    /\ gets = 0
    /\ response = NoResponse
    /\ data = <<>>
    /\ df = NoFrame
    /\ page = << [el |-> "title"], [el |-> "intro"] >>

ErrorBanner(e) == [el |-> "error", text |-> "Could not fetch or parse data from API: " \o e]

\* Mutant of FetchFails: the st.stop() of line 32 is missing.
FetchFailsNoStop(resp, e) ==
    /\ response' = resp
    /\ page' = Append(page, ErrorBanner(e))
    /\ pc' = "normalize"
    /\ UNCHANGED <<data, df>>

\* st.error(...); st.stop()
FetchFails(resp, e) ==
    /\ response' = resp
    /\ page' = Append(page, ErrorBanner(e))
    /\ pc' = "stopped"
    /\ UNCHANGED <<data, df>>

Fetch ==
    /\ pc = "fetch"
    /\ gets' = gets + 1
    /\ \/ FetchFails([kind |-> "exception", status |-> 0, json |-> FALSE],
                     "ConnectionError")
       \/ \E s \in StatusCodes, j \in BOOLEAN :
            /\ HTTPErrorMsg(s) # ""
            /\ FetchFails([kind |-> "response", status |-> s, json |-> j],
                          HTTPErrorMsg(s))
       \/ \E s \in StatusCodes :
            /\ HTTPErrorMsg(s) = ""
            /\ FetchFails([kind |-> "response", status |-> s, json |-> FALSE],
                          "Expecting value")
       \/ \E s \in StatusCodes, body \in Bodies :
            /\ HTTPErrorMsg(s) = ""
            /\ response' = [kind |-> "response", status |-> s, json |-> TRUE]
            /\ data' = body
            /\ pc' = "normalize"
            /\ UNCHANGED <<df, page>>

(***************************************************************************)
(* Normalizer: coordinate extraction (lines 39-44) and filtering (45-48).  *)
(***************************************************************************)
\* lambda x: x[key] if x and key in x else None
Extract(x, key) == IF Truthy(x) /\ Contains(x, key) THEN x.d[key] ELSE JNull

\* The lambda raises TypeError when x is truthy and not a container (NaN).
ExtractRaises(x) == Truthy(x) /\ InRaises(x)

\* Series.apply: the lambda's results, inferred as a column.
Apply(frame, key) ==
    InferColumn([i \in DOMAIN frame.rows |-> Extract(frame.rows[i].geocode, key)])

\* Mutant of AssignLatLon: the extraction consumes the geocode column.
AssignLatLonPop(frame) ==
    [columns |-> frame.columns \cup {"lat", "lon"},
     rows |-> [i \in DOMAIN frame.rows |->
                 ("lat" :> Apply(frame, "lat")[i]) @@ ("lon" :> Apply(frame, "lng")[i])
                     @@ ("geocode" :> JNull) @@ frame.rows[i]]]

\* df["lat"] = ...; df["lon"] = ...   (the source key lng becomes the column lon)
AssignLatLon(frame) ==
    [columns |-> frame.columns \cup {"lat", "lon"},
     rows |-> [i \in DOMAIN frame.rows |->
                 ("lat" :> Apply(frame, "lat")[i]) @@ ("lon" :> Apply(frame, "lng")[i])
                     @@ frame.rows[i]]]

\* the condition of line 39
HasData(frame) == ~Empty(frame) /\ "geocode" \in frame.columns

ApplyRaises(frame) == \E i \in DOMAIN frame.rows : ExtractRaises(frame.rows[i].geocode)

\* df.dropna(subset=["lat", "lon"])
KeepRow(r) == ~IsNA(r.lat) /\ ~IsNA(r.lon)

\* Mutant of DropNaRows: dropna(subset=["lat"]).
DropNaLatOnly(frame) ==
    [frame EXCEPT !.rows = SelectSeq(frame.rows, LAMBDA r : ~IsNA(r.lat))]

DropNaRows(frame) == [frame EXCEPT !.rows = SelectSeq(frame.rows, KeepRow)]

\* Mutant of InfoBanner: st.warning in place of st.info.
InfoAsWarning ==
    [el |-> "warning", text |-> "Waiting for data... No active geocode queries found at the moment."]

InfoBanner ==
    [el |-> "info", text |-> "Waiting for data... No active geocode queries found at the moment."]

WarningBanner == [el |-> "warning", text |-> "No data with valid geocodes to display."]

\* An uncaught exception ends the script run; the framework shows it on the page.
ExceptionBox(e) == [el |-> "exception", text |-> e]

\* lines 34-44
Normalize ==
    /\ pc = "normalize"
    /\ IF HasData(DataFrame(data))
       THEN IF ApplyRaises(DataFrame(data))
            THEN /\ df' = DataFrame(data)
                 /\ page' = Append(page, ExceptionBox("TypeError"))
                 /\ pc' = "crashed"
            ELSE /\ df' = AssignLatLon(DataFrame(data))
                 /\ pc' = "dropna"
                 /\ UNCHANGED page
       ELSE /\ df' = DataFrame(data)
            /\ page' = Append(page, InfoBanner)
            /\ pc' = "stopped"
    /\ UNCHANGED <<gets, response, data>>

\* lines 45-48
DropNa ==
    /\ pc = "dropna"
    /\ df' = DropNaRows(df)
    /\ IF Empty(DropNaRows(df))
       THEN /\ page' = Append(page, WarningBanner)
            /\ pc' = "stopped"
       ELSE /\ pc' = "present"
            /\ UNCHANGED page
    /\ UNCHANGED <<gets, response, data>>

(***************************************************************************)
(* Presenter: colour and tooltip (lines 51-79).                            *)
(***************************************************************************)
\* Mutant of priority_to_color: the colours of high and medium exchanged.
priority_to_color_swapped(priority) ==
    IF priority = JStr("urgent") THEN <<255, 0, 0, 200>>
    ELSE IF priority = JStr("high") THEN <<255, 165, 0, 200>>
    ELSE IF priority = JStr("medium") THEN <<255, 255, 0, 200>>
    ELSE <<0, 200, 0, 200>>

priority_to_color(priority) ==
    IF priority = JStr("urgent") THEN <<255, 0, 0, 200>>
    ELSE IF priority = JStr("high") THEN <<255, 255, 0, 200>>
    ELSE IF priority = JStr("medium") THEN <<255, 165, 0, 200>>
    ELSE <<0, 200, 0, 200>>

\* Mutant of Tooltip: the newline after the status line is missing.
TooltipMissingNewline(x) ==
    << "ID: ", Format(x.query_id), "\n",
       "Address: ", Format(x.query_address), "\n",
       "Region: ", Format(x.region), "\n",
       "Status: ", Format(x.query_status), " ",
       "Priority: ", Format(x.priority_status), "\n",
       "description: ", Format(x.query_description), " " >>

\* The f-string of lines 61-66, piece by piece: literals and formatted fields.
Tooltip(x) ==
    << "ID: ", Format(x.query_id), "\n",
       "Address: ", Format(x.query_address), "\n",
       "Region: ", Format(x.region), "\n",
       "Status: ", Format(x.query_status), "\n",
       "Priority: ", Format(x.priority_status), "\n",
       "description: ", Format(x.query_description), " " >>

AddPresentation(frame) ==
    [columns |-> frame.columns \cup {"tooltip", "color"},
     rows |-> [i \in DOMAIN frame.rows |->
                 ("tooltip" :> Tooltip(frame.rows[i]))
                     @@ ("color" :> priority_to_color(frame.rows[i].priority_status))
                     @@ frame.rows[i]]]

\* pdk.Layer("ScatterplotLayer", data=df, get_position=["lon","lat"], ...)
ScatterLayer(frame) ==
    [i \in DOMAIN frame.rows |->
       [position |-> <<frame.rows[i].lon, frame.rows[i].lat>>,
        fill_color |-> frame.rows[i].color,
        radius |-> 200,
        tooltip |-> frame.rows[i].tooltip]]

Present ==
    /\ pc = "present"
    /\ df' = AddPresentation(df)
    /\ pc' = "render_data"
    /\ UNCHANGED <<gets, response, data, page>>

(***************************************************************************)
(* Renderer (lines 81-156).                                                *)
(***************************************************************************)
TableColumns ==
    << "query_id", "query_address", "region", "query_status", "priority_status",
       "query_description", "lat", "lon" >>

\* df[[...]]: the projection on the eight table columns
Projection(frame) ==
    [i \in DOMAIN frame.rows |->
       [c \in {TableColumns[k] : k \in DOMAIN TableColumns} |-> frame.rows[i][c]]]

\* to_csv(index=False): a header line, then one line per row; a missing value
\* is written as the empty field.
CsvField(x) == IF IsNA(x) THEN "" ELSE Format(x)

convert_df_to_csv(rows) ==
    [header |-> TableColumns,
     lines |-> [i \in DOMAIN rows |->
                  [k \in DOMAIN TableColumns |-> CsvField(rows[i][TableColumns[k]])]]]

\* Mutant of value_counts: value_counts(dropna=False).
value_counts_keepna(frame, col) ==
    [v \in {frame.rows[i][col] : i \in DOMAIN frame.rows} |->
       Cardinality({i \in DOMAIN frame.rows : frame.rows[i][col] = v})]

\* Series.value_counts(): the count of every value, missing values left out
value_counts(frame, col) ==
    [v \in {frame.rows[i][col] : i \in DOMAIN frame.rows} \ {JNull, NaN} |->
       Cardinality({i \in DOMAIN frame.rows : frame.rows[i][col] = v})]

\* Series.nunique(): the number of distinct values, missing values left out
nunique(frame, col) ==
    Cardinality({frame.rows[i][col] : i \in DOMAIN frame.rows} \ {JNull, NaN})

\* df[df['priority_status'] == 'urgent'].shape[0]
UrgentCount(frame) ==
    Cardinality({i \in DOMAIN frame.rows : frame.rows[i].priority_status = JStr("urgent")})

\* pd.crosstab(region, priority_status): rows with a missing label are left out
crosstab(frame) ==
    LET both == {i \in DOMAIN frame.rows :
                   ~IsNA(frame.rows[i].region) /\ ~IsNA(frame.rows[i].priority_status)}
    IN  [rp \in {frame.rows[i].region : i \in both}
                  \X {frame.rows[i].priority_status : i \in both} |->
           Cardinality({i \in both : /\ frame.rows[i].region = rp[1]
                                     /\ frame.rows[i].priority_status = rp[2]})]

Metric(label, value) == [el |-> "metric", label |-> label, value |-> value]

\* lines 81-96
RenderData ==
    /\ pc = "render_data"
    /\ page' = page \o
         << [el |-> "header", text |-> "Query Data"],
            [el |-> "table", rows |-> Projection(df)],
            [el |-> "download_button", file |-> "query_data.csv", mime |-> "text/csv",
             csv |-> convert_df_to_csv(Projection(df))] >>
    /\ pc' = "render_analytics"
    /\ UNCHANGED <<gets, response, data, df>>

\* lines 98-142
RenderAnalytics ==
    /\ pc = "render_analytics"
    /\ page' = page \o
         << [el |-> "header", text |-> "Analytics Dashboard"],
            Metric("Total Queries", Len(df.rows)),
            Metric("Number of Regions", nunique(df, "region")),
            Metric("Urgent Queries", UrgentCount(df)),
            [el |-> "pie_chart", title |-> "Query Priority Distribution",
             counts |-> value_counts(df, "priority_status")],
            [el |-> "pie_chart", title |-> "Query Status Distribution",
             counts |-> value_counts(df, "query_status")],
            [el |-> "bar_chart", title |-> "Queries by Region",
             counts |-> value_counts(df, "region")],
            [el |-> "crosstab", title |-> "Queries by Region and Priority",
             counts |-> crosstab(df)] >>
    /\ pc' = "render_map"
    /\ UNCHANGED <<gets, response, data, df>>

\* lines 144-156
RenderMap ==
    /\ pc = "render_map"
    /\ page' = page \o
         << [el |-> "header", text |-> "Map"],
            [el |-> "map", points |-> ScatterLayer(df)] >>
    /\ pc' = "done"
    /\ UNCHANGED <<gets, response, data, df>>

Next ==
    \/ Fetch
    \/ Normalize
    \/ DropNa
    \/ Present
    \/ RenderData
    \/ RenderAnalytics
    \/ RenderMap

Spec == Init /\ [][Next]_vars

(***************************************************************************)
(* Vocabulary of the properties.                                           *)
(***************************************************************************)
\* The fetch went through: data holds the parsed body.
Fetched ==
    /\ response.kind = "response"
    /\ ~(400 <= response.status /\ response.status < 600)
    /\ response.json

PostFilter == {"present", "render_data", "render_analytics", "render_map", "done"}

PostPresent == {"render_data", "render_analytics", "render_map", "done"}

RenderedKinds ==
    {"header", "table", "download_button", "metric", "pie_chart", "bar_chart",
     "crosstab", "map"}

NothingRendered == \A i \in DOMAIN page : page[i].el \notin RenderedKinds

\* The page is the title, the introduction and one banner of the given kind,
\* and the script has stopped.
HaltedWith(kind) ==
    /\ pc = "stopped"
    /\ Len(page) = 3
    /\ page[1].el = "title" /\ page[2].el = "intro" /\ page[3].el = kind

ElementKinds == [i \in DOMAIN page |-> page[i].el]

CompleteRender ==
    /\ pc = "done"
    /\ ElementKinds =
         << "title", "intro", "header", "table", "download_button", "header",
            "metric", "metric", "metric", "pie_chart", "pie_chart", "bar_chart",
            "crosstab", "header", "map" >>

\* The coordinates the extraction rule gives a fetched record.
RuleLat(rec) ==
    IF "geocode" \in DOMAIN rec /\ rec.geocode.t = "dict" /\ "lat" \in DOMAIN rec.geocode.d
    THEN rec.geocode.d.lat ELSE JNull

RuleLon(rec) ==
    IF "geocode" \in DOMAIN rec /\ rec.geocode.t = "dict" /\ "lng" \in DOMAIN rec.geocode.d
    THEN rec.geocode.d.lng ELSE JNull

SameCell(a, b) == (IsNA(a) /\ IsNA(b)) \/ a = b

ValidRecord(rec) == ~IsNA(RuleLat(rec)) /\ ~IsNA(RuleLon(rec))

\* The fetched collection is empty, or no record of it carries a geocode field.
NoDataInput == Len(data) = 0 \/ \A i \in DOMAIN data : "geocode" \notin DOMAIN data[i]

ElementsOf(kind) == {page[i] : i \in {k \in DOMAIN page : page[k].el = kind}}

MetricValue(label) ==
    (CHOOSE m \in ElementsOf("metric") : m.label = label).value

RegionCounts == (CHOOSE b \in ElementsOf("bar_chart") : TRUE).counts

RECURSIVE SumCounts(_, _)
SumCounts(f, S) ==
    IF S = {} THEN 0
    ELSE LET v == CHOOSE w \in S : TRUE IN f[v] + SumCounts(f, S \ {v})

Lines(t) == 1 + Cardinality({k \in DOMAIN t : t[k] = "\n"})

Red == <<255, 0, 0, 200>>

(***************************************************************************)
(* C1: every row that reaches the presenter and the renderer (data frame   *)
(* after filtering, table, CSV, map) has both lat and lon non-null.        *)
(***************************************************************************)
C1_FilteringInvariant ==
    /\ pc \in PostFilter =>
         \A i \in DOMAIN df.rows : ~IsNA(df.rows[i].lat) /\ ~IsNA(df.rows[i].lon)
    /\ \A t \in ElementsOf("table") :
         \A i \in DOMAIN t.rows : ~IsNA(t.rows[i].lat) /\ ~IsNA(t.rows[i].lon)
    /\ \A b \in ElementsOf("download_button") :
         \A i \in DOMAIN b.csv.lines : b.csv.lines[i][7] # "" /\ b.csv.lines[i][8] # ""
    /\ \A m \in ElementsOf("map") :
         \A i \in DOMAIN m.points :
            ~IsNA(m.points[i].position[1]) /\ ~IsNA(m.points[i].position[2])

C1_Witness == pc = "done" /\ Len(df.rows) > 0 /\ Len(df.rows) < Len(data)

(***************************************************************************)
(* C2, as stated: when the fetch fails (network exception, non-2xx status, *)
(* or a body that is not valid JSON) the page is exactly one error banner  *)
(* and the script has stopped.                                             *)
(***************************************************************************)
C2_AnyNon2xxHalts ==
    (pc # "fetch" /\ (\/ response.kind = "exception"
                      \/ response.status \notin 200..299
                      \/ ~response.json))
        => HaltedWith("error")

(***************************************************************************)
(* C2, amended: when requests.get raises, the status is 4xx or 5xx, or the *)
(* body is not valid JSON, the page is the title, the introduction and     *)
(* exactly one error banner carrying the exception text, nothing is        *)
(* rendered and the script has stopped.                                    *)
(***************************************************************************)
C2_FetchFailureHalts ==
    (pc # "fetch" /\ ~Fetched) =>
        /\ HaltedWith("error")
        /\ NothingRendered
        /\ page[3].text = "Could not fetch or parse data from API: " \o
             (IF response.kind = "exception" THEN "ConnectionError"
              ELSE IF response.status \in 400..499
                   THEN ToString(response.status) \o " Client Error"
              ELSE IF response.status \in 500..599
                   THEN ToString(response.status) \o " Server Error"
              ELSE "Expecting value")

C2_Witness ==
    /\ pc = "stopped"
    /\ response.kind = "response" /\ response.status = 404
    /\ page[3].el = "error"

(***************************************************************************)
(* C3: if the fetched collection is empty, or no record carries a geocode  *)
(* field, the page shows the informational message and halts: no warning   *)
(* or error banner, nothing rendered.                                      *)
(***************************************************************************)
C3_NoDataHalts ==
    (Fetched /\ pc # "normalize" /\ NoDataInput) =>
        /\ HaltedWith("info")
        /\ NothingRendered
        /\ page[3].text = "Waiting for data... No active geocode queries found at the moment."

C3_Witness ==
    /\ Fetched /\ pc = "stopped"
    /\ Len(data) > 0 /\ NoDataInput
    /\ page[3].el = "info"

(***************************************************************************)
(* C4, as stated: if the collection is non-empty and has a geocode field   *)
(* but every record has a null lat or lon, the page shows the warning      *)
(* message (not the informational one) and halts with nothing rendered.    *)
(***************************************************************************)
C4_NoValidGeocodesHalts ==
    (/\ Fetched /\ pc \notin {"normalize", "dropna"}
     /\ ~NoDataInput
     /\ \A i \in DOMAIN data : ~ValidRecord(data[i]))
        => /\ HaltedWith("warning")
           /\ NothingRendered
           /\ page[3].text = "No data with valid geocodes to display."

(***************************************************************************)
(* C5: the colour of every row is (255,0,0,200) for urgent, (255,255,0,200)*)
(* for high, (255,165,0,200) for medium and (0,200,0,200) for low, null    *)
(* and anything else; rows of equal priority_status have equal colours;    *)
(* the map's fill colour is the row's colour.                              *)
(***************************************************************************)
C5_PriorityColor ==
    pc \in PostPresent =>
        /\ \A i \in DOMAIN df.rows :
             LET p == df.rows[i].priority_status
                 c == df.rows[i].color
             IN  /\ p = JStr("urgent") => c = <<255, 0, 0, 200>>
                 /\ p = JStr("high") => c = <<255, 255, 0, 200>>
                 /\ p = JStr("medium") => c = <<255, 165, 0, 200>>
                 /\ p \notin {JStr("urgent"), JStr("high"), JStr("medium")}
                      => c = <<0, 200, 0, 200>>
        /\ \A i, j \in DOMAIN df.rows :
             df.rows[i].priority_status = df.rows[j].priority_status
                 => df.rows[i].color = df.rows[j].color
        /\ \A m \in ElementsOf("map") :
             \A i \in DOMAIN m.points : m.points[i].fill_color = df.rows[i].color

C5_Witness ==
    /\ pc = "done"
    /\ \E i, j \in DOMAIN df.rows :
         /\ df.rows[i].priority_status = JNull /\ df.rows[i].color = <<0, 200, 0, 200>>
         /\ df.rows[j].priority_status = JStr("high")

(***************************************************************************)
(* C6, as stated: for a collection that passes the NoData check, every     *)
(* record gets lat = geocode.lat and lon = geocode.lng when present and    *)
(* null otherwise, also a record whose geocode is null, empty or absent.   *)
(***************************************************************************)
C6_CoordinateExtraction ==
    (Fetched /\ pc # "normalize" /\ ~NoDataInput) =>
        /\ pc # "crashed"
        /\ pc = "dropna" =>
             /\ Len(df.rows) = Len(data)
             /\ \A i \in DOMAIN data :
                  /\ SameCell(df.rows[i].lat, RuleLat(data[i]))
                  /\ SameCell(df.rows[i].lon, RuleLon(data[i]))
        /\ pc \in PostFilter =>
             Len(df.rows) = Cardinality({i \in DOMAIN data : ValidRecord(data[i])})

(***************************************************************************)
(* C7, as stated: the tooltip is a 5-line template of the six fields in    *)
(* order, and for a row with query_id 1 it starts with "ID: 1\n".          *)
(***************************************************************************)
C7_FiveLineTooltip ==
    pc \in PostPresent =>
        \A i \in DOMAIN df.rows :
            /\ Lines(df.rows[i].tooltip) = 5
            /\ df.rows[i].query_id \in {JNum(1), Float(10)}
                 => SubSeq(df.rows[i].tooltip, 1, 3) = << "ID: ", "1", "\n" >>

(***************************************************************************)
(* C7, amended: the tooltip is a 6-line template (five newline separators),*)
(* one labelled field per line: query_id, query_address, region,           *)
(* query_status, priority_status, query_description, then a space; when    *)
(* every fetched record has an integer query_id, the tooltip of a row with *)
(* query_id 1 starts with "ID: 1\n" (with a null query_id in the           *)
(* collection the column is float64 and it starts with "ID: 1.0\n").       *)
(***************************************************************************)
C7_Tooltip ==
    pc \in PostPresent =>
        \A i \in DOMAIN df.rows :
            LET t == df.rows[i].tooltip
                r == df.rows[i]
            IN  /\ Lines(t) = 6
                /\ Len(t) = 18
                /\ <<t[1], t[4], t[7], t[10], t[13], t[16]>> =
                     << "ID: ", "Address: ", "Region: ", "Status: ", "Priority: ",
                        "description: " >>
                /\ <<t[2], t[5], t[8], t[11], t[14], t[17]>> =
                     << Format(r.query_id), Format(r.query_address), Format(r.region),
                        Format(r.query_status), Format(r.priority_status),
                        Format(r.query_description) >>
                /\ <<t[3], t[6], t[9], t[12], t[15], t[18]>> =
                     << "\n", "\n", "\n", "\n", "\n", " " >>
                /\ (r.query_id = JNum(1)
                      /\ \A j \in DOMAIN data : data[j].query_id.t = "num")
                     => SubSeq(t, 1, 3) = << "ID: ", "1", "\n" >>
                /\ r.query_id = Float(10) => SubSeq(t, 1, 3) = << "ID: ", "1.0", "\n" >>

C7_Witness ==
    /\ pc = "done"
    /\ \E i \in DOMAIN df.rows :
         /\ df.rows[i].query_id = JNum(1)
         /\ SubSeq(df.rows[i].tooltip, 1, 3) = << "ID: ", "1", "\n" >>

(***************************************************************************)
(* C8, as stated: every page load issues exactly one GET and ends in       *)
(* exactly one of: error halt, informational halt, warning halt, complete  *)
(* render; there is no partial render and no failure after a checkpoint.   *)
(***************************************************************************)
C8_AllOrNothing ==
    /\ gets = (IF pc = "fetch" THEN 0 ELSE 1)
    /\ pc # "crashed"
    /\ pc \in {"stopped", "done"} =>
         /\ \/ HaltedWith("error") /\ ~Fetched
            \/ HaltedWith("info") /\ Fetched /\ NoDataInput
            \/ HaltedWith("warning") /\ Fetched /\ ~NoDataInput
            \/ CompleteRender /\ Fetched /\ ~NoDataInput
         /\ pc = "stopped" => NothingRendered

(***************************************************************************)
(* C9: applying the normalizer (coordinate extraction, then dropping the   *)
(* rows with a null lat or lon) to its own non-empty output passes both    *)
(* halt checks and yields the same rows with the same lat and lon.         *)
(***************************************************************************)
C9_NormalizerIdempotent ==
    pc \in PostFilter =>
        /\ HasData(df)
        /\ ~ApplyRaises(df)
        /\ ~Empty(DropNaRows(AssignLatLon(df)))
        /\ Len(DropNaRows(AssignLatLon(df)).rows) = Len(df.rows)
        /\ \A i \in DOMAIN df.rows :
             /\ DropNaRows(AssignLatLon(df)).rows[i].lat = df.rows[i].lat
             /\ DropNaRows(AssignLatLon(df)).rows[i].lon = df.rows[i].lon

C9_Witness == pc = "present" /\ Len(df.rows) > 0 /\ Len(df.rows) < Len(data)

(***************************************************************************)
(* C10, as stated: on a complete render the region count of every label is *)
(* the number of surviving rows with that label, the counts sum to the     *)
(* Total Queries metric, and Urgent Queries is the number of red rows.     *)
(***************************************************************************)
C10_CountsSumToTotal ==
    pc = "done" =>
        /\ \A r \in DOMAIN RegionCounts :
             RegionCounts[r] =
                Cardinality({i \in DOMAIN data : ValidRecord(data[i]) /\ data[i].region = r})
        /\ SumCounts(RegionCounts, DOMAIN RegionCounts) = MetricValue("Total Queries")
        /\ MetricValue("Urgent Queries") =
             Cardinality({i \in DOMAIN df.rows : df.rows[i].color = Red})

(***************************************************************************)
(* C10, amended: on a complete render the region count of every label is   *)
(* the number of surviving rows with that label (dropped rows are never    *)
(* counted, a null region is no label), the counts sum to the number of    *)
(* surviving rows whose region is not null, which is the Total Queries     *)
(* metric when no surviving row has a null region, and Urgent Queries is   *)
(* the number of red rows.                                                 *)
(***************************************************************************)
C10_RegionCounts ==
    pc = "done" =>
        /\ DOMAIN RegionCounts =
             {data[i].region : i \in {k \in DOMAIN data : ValidRecord(data[k])}} \ {JNull}
        /\ \A r \in DOMAIN RegionCounts :
             RegionCounts[r] =
                Cardinality({i \in DOMAIN data : ValidRecord(data[i]) /\ data[i].region = r})
        /\ MetricValue("Total Queries") =
             Cardinality({i \in DOMAIN data : ValidRecord(data[i])})
        /\ SumCounts(RegionCounts, DOMAIN RegionCounts) =
             Cardinality({i \in DOMAIN df.rows : ~IsNA(df.rows[i].region)})
        /\ (\A i \in DOMAIN df.rows : ~IsNA(df.rows[i].region))
             => SumCounts(RegionCounts, DOMAIN RegionCounts) = MetricValue("Total Queries")
        /\ MetricValue("Urgent Queries") =
             Cardinality({i \in DOMAIN df.rows : df.rows[i].color = Red})

C10_Witness ==
    /\ pc = "done"
    /\ Len(df.rows) < Len(data)
    /\ \E r \in DOMAIN RegionCounts : r = JStr("Gauteng") /\ RegionCounts[r] >= 1
=============================================================================
